---------------------------- MODULE Spec2Model ----------------------------
(***************************************************************************)
(* Amazon Icy Tower (src/amazon_icy_tower.py): the player's movement and   *)
(* platform-collision resolution, the combo bookkeeping, the camera and    *)
(* the game-over / restart cycle.                                          *)
(*                                                                         *)
(* Numbers.  The program computes with Python floats.  Positions,          *)
(* velocities and camera offsets are modelled as fixed-point integers in   *)
(* units of 1/Scale; a product with a fractional factor (friction, wall    *)
(* bounce, side bounce, camera smoothing, jump boost) is truncated toward  *)
(* zero to that resolution.  Platform rectangles are whole numbers, as the *)
(* generator produces them.  pygame.Rect truncates float arguments toward  *)
(* zero, which the model does where the program builds a Rect.             *)
(***************************************************************************)
EXTENDS Integers, Sequences, FiniteSets, TLC

\* ------------------------------------------------------------------ numbers

\* fixed-point resolution of the float quantities (units per pixel)
Scale == 1000

Abs(a) == IF a < 0 THEN -a ELSE a
Min(a, b) == IF a < b THEN a ELSE b
Max(a, b) == IF a > b THEN a ELSE b

\* a / b truncated toward zero (float product cut to the resolution; int(), Rect)
TruncDiv(a, b) == IF a >= 0 THEN a \div b ELSE -((-a) \div b)

\* a pixel quantity in fixed-point units
Px(n) == n * Scale

\* ---------------------------------------------------------------- constants

WINDOW_WIDTH == 800
WINDOW_HEIGHT == 600
\* GRAVITY = 0.3
GRAVITY == (3 * Scale) \div 10
JUMP_STRENGTH == -8
MAX_SPEED == 10
\* ACCELERATION = 0.4
ACCELERATION == (4 * Scale) \div 10
\* FRICTION = 0.85, WALL_BOUNCE_FACTOR = 0.9, CAMERA_SMOOTH = 0.15: in hundredths
FRICTION == 85
WALL_BOUNCE_FACTOR == 90
CAMERA_SMOOTH == 15
\* side bounce keeps 0.7 of the speed: in hundredths
SIDE_BOUNCE_FACTOR == 70
PLATFORM_HEIGHT == 30
FLOOR_SPACING == 100
COMBO_MIN_FLOORS == 2

\* Player.width, Player.height, Player.combo_max_time
Player_width == 30
Player_height == 45
combo_max_time == 180

\* wall_boundary_left, wall_boundary_right of Player.update
wall_boundary_left == 100
wall_boundary_right == WINDOW_WIDTH - 100

\* ground_y = WINDOW_HEIGHT - 100
ground_y == WINDOW_HEIGHT - 100

\* scroll_speed starts at 0.1 and grows by 0.05; speedup every 1800 ticks
SCROLL_SPEED_0 == Scale \div 10
SCROLL_SPEED_STEP == (5 * Scale) \div 100
SPEEDUP_TICKS == 1800

\* ------------------------------------------------------------------- bounds

\* number of floors generated above the ground (the program generates 199)
NumFloors == 5
\* update() calls modelled per behaviour
MaxTicks == 110
\* the held keys may change only every ChangePeriod-th tick ...
ChangePeriod == 19
\* ... and only during the first ChangeWindow ticks
ChangeWindow == 58
\* the tick at which the drawn mid-game states of SpecUpdate stand
UpdateStart == 107


\* ------------------------------------------------------------ tower generator

\* random.choice(seq) for the raw draw k
Choice(seq, k) == seq[(k % Len(seq)) + 1]

\* random.randint(lo, hi) for the raw draw k
RandInt(k, lo, hi) == lo + (k % (hi - lo + 1))

\* the ground floor (floor 0)
ground_platform ==
    [x |-> 0, y |-> ground_y, width |-> WINDOW_WIDTH, height |-> PLATFORM_HEIGHT,
     floor |-> 0, checkpoint |-> TRUE]

playable_area_start == 100 + 20
playable_area_end == WINDOW_WIDTH - 100 - 20
playable_width == playable_area_end - playable_area_start

length_choices(floor) ==
    IF floor <= 99 THEN <<"extra_long", "extra_long", "long", "long">>
    ELSE IF floor <= 199 THEN <<"long", "medium", "short", "short">>
    ELSE IF floor <= 399 THEN <<"short", "short", "short", "medium">>
    ELSE <<"long", "medium", "short", "short">>

\* platform_width by length type; base_width = 200, computed in tenths of a pixel
\* and cut by int()
platform_width_of(floor, length_type) ==
    IF length_type = "extra_long"
    THEN Max(2400 - Min(floor * 3, 200), 2200) \div 10
    ELSE IF length_type = "long"
    THEN Max(2000 - Min(floor * 8, 400), 1800) \div 10
    ELSE IF length_type = "medium"
    THEN Max(1200 - Min(floor * 12, 600), 800) \div 10
    ELSE Max(Max(1000 - Min(floor * 15, 800), 600) \div 20, 30)

position_choices(floor) ==
    IF floor <= 50 THEN <<"center", "center", "far_left", "far_right">>
    ELSE <<"far_left", "far_right", "center_gap">>

\* platform_x_of placing a far_right platform's left edge, not its right edge,
\* at the end of the playable area
platform_x_of_right_edge(floor, w, d) ==
    LET available_space == playable_width - w
        position_choice == Choice(position_choices(floor), d.pos)
        max_offset == Min(30, available_space \div 3)
        gap_size == Min(60, available_space \div 3)
        remaining_space == available_space - 2 * gap_size
    IN  IF available_space > 0
        THEN IF position_choice = "center"
             THEN playable_area_start + available_space \div 2
             ELSE IF position_choice = "far_left"
             THEN playable_area_start + RandInt(d.r, 0, max_offset)
             ELSE IF position_choice = "far_right"
             THEN playable_area_end - RandInt(d.r, 0, max_offset)
             ELSE IF remaining_space > 0
             THEN playable_area_start + gap_size + RandInt(d.r, 0, remaining_space)
             ELSE playable_area_start + gap_size
        ELSE playable_area_start

\* x of a non-checkpoint platform of the given width; d.pos and d.r are the raw
\* draws of random.choice and random.randint
platform_x_of(floor, w, d) ==
    LET available_space == playable_width - w
        position_choice == Choice(position_choices(floor), d.pos)
        max_offset == Min(30, available_space \div 3)
        gap_size == Min(60, available_space \div 3)
        remaining_space == available_space - 2 * gap_size
    IN  IF available_space > 0
        THEN IF position_choice = "center"
             THEN playable_area_start + available_space \div 2
             ELSE IF position_choice = "far_left"
             THEN playable_area_start + RandInt(d.r, 0, max_offset)
             ELSE IF position_choice = "far_right"
             THEN playable_area_end - w - RandInt(d.r, 0, max_offset)
             ELSE IF remaining_space > 0
             THEN playable_area_start + gap_size + RandInt(d.r, 0, remaining_space)
             ELSE playable_area_start + gap_size
        ELSE playable_area_start

\* the platform generate_tower appends for floor >= 1, given the floor's raw
\* draws d = [len, pos, r]
gen_platform(floor, d) ==
    LET y == ground_y - floor * FLOOR_SPACING
        is_checkpoint == (floor % 10 = 0)
        w0 == platform_width_of(floor, Choice(length_choices(floor), d.len))
        w == IF w0 > playable_width THEN playable_width - 20 ELSE w0
    IN  IF is_checkpoint
        THEN [x |-> wall_boundary_left, y |-> y,
              width |-> wall_boundary_right - wall_boundary_left,
              height |-> PLATFORM_HEIGHT, floor |-> floor, checkpoint |-> TRUE]
        ELSE [x |-> platform_x_of(floor, w, d), y |-> y, width |-> w,
              height |-> PLATFORM_HEIGHT, floor |-> floor, checkpoint |-> FALSE]

\* self.platforms after generate_tower, for the draws of one random stream
generate_tower(draws) ==
    <<ground_platform>> \o [f \in 1..NumFloors |-> gen_platform(f, draws[f])]

\* The random streams modelled: each gives one floor's raw draws.  A stream is
\* [len0, lenStep, pos0, posStep, r0, rStep]; floor f draws
\* len0 + f*lenStep, pos0 + f*posStep, r0 + f*rStep.
RandomStreams ==
    { [len0 |-> 2, lenStep |-> 0, pos0 |-> 2, posStep |-> 0, r0 |-> 5, rStep |-> 1],
      [len0 |-> 0, lenStep |-> 0, pos0 |-> 3, posStep |-> 1, r0 |-> 2, rStep |-> 9] }

DrawsOf(s) ==
    [f \in 1..NumFloors |->
        [len |-> s.len0 + f * s.lenStep, pos |-> s.pos0 + f * s.posStep,
         r |-> s.r0 + f * s.rStep]]

Towers == { generate_tower(DrawsOf(s)) : s \in RandomStreams }

\* --------------------------------------------------------------------- Player

\* Player(x, y) of Player.__init__, x and y in pixels.  rotation, rotation_speed
\* and color only feed the drawing code and are left out.
Player(x, y) ==
    [x |-> Px(x), y |-> Px(y), vel_x |-> 0, vel_y |-> 0, on_ground |-> TRUE,
     combo_active |-> FALSE, combo_floors |-> 0, combo_timer |-> 0,
     total_combo_floors |-> 0, last_floor |-> 0, highest_floor |-> 0, score |-> 0]

\* pygame.Rect(x, y, w, h): x and y in fixed-point units, w and h in pixels
Rect(xu, yu, w, h) == [x |-> TruncDiv(xu, Scale), y |-> TruncDiv(yu, Scale), w |-> w, h |-> h]

platform_rect(platform) ==
    [x |-> platform.x, y |-> platform.y, w |-> platform.width, h |-> platform.height]

\* pygame's Rect.colliderect: strict overlap, never with an empty rectangle
colliderect(a, b) ==
    /\ a.w > 0 /\ a.h > 0 /\ b.w > 0 /\ b.h > 0
    /\ a.x < b.x + b.w /\ a.y < b.y + b.h
    /\ a.x + a.w > b.x /\ a.y + a.h > b.y

\* end_combo paying ten points per floor of the combo instead of the square
end_combo_linear(p) ==
    LET combo_score == p.total_combo_floors * 10
        awarded == IF p.combo_active /\ p.total_combo_floors > 0
                   THEN p.score + combo_score ELSE p.score
    IN  [p EXCEPT !.score = awarded, !.combo_active = FALSE, !.combo_floors = 0,
                  !.total_combo_floors = 0, !.combo_timer = 0]

\* end_combo leaving the combo timer as it stands
end_combo_keeps_timer(p) ==
    LET combo_score == p.total_combo_floors * p.total_combo_floors * 10
        awarded == IF p.combo_active /\ p.total_combo_floors > 0
                   THEN p.score + combo_score ELSE p.score
    IN  [p EXCEPT !.score = awarded, !.combo_active = FALSE, !.combo_floors = 0,
                  !.total_combo_floors = 0]

\* Player.end_combo
end_combo(p) ==
    LET combo_score == p.total_combo_floors * p.total_combo_floors * 10
        awarded == IF p.combo_active /\ p.total_combo_floors > 0
                   THEN p.score + combo_score ELSE p.score
    IN  [p EXCEPT !.score = awarded, !.combo_active = FALSE, !.combo_floors = 0,
                  !.total_combo_floors = 0, !.combo_timer = 0]

\* the bonus table with the triple jump paid like a big jump
jump_bonus_by_floor(floors_jumped) ==
    IF floors_jumped = 2 THEN 20
    ELSE IF floors_jumped >= 3 THEN floors_jumped * 25
    ELSE 0

\* bonus points for multi-floor jumps
jump_bonus(floors_jumped) ==
    IF floors_jumped = 2 THEN 20
    ELSE IF floors_jumped = 3 THEN 50
    ELSE IF floors_jumped >= 4 THEN floors_jumped * 25
    ELSE 0

\* the floor record taken without its guard
floor_record_unguarded(p, landed_floor) ==
    [p EXCEPT !.highest_floor = landed_floor,
              !.score = IF landed_floor > 0 THEN @ + 10 ELSE @]

\* the floor record: a new highest floor, and 10 points for it from floor 1 on
floor_record(p, landed_floor) ==
    IF landed_floor > p.highest_floor
    THEN [p EXCEPT !.highest_floor = landed_floor,
                   !.score = IF landed_floor > 0 THEN @ + 10 ELSE @]
    ELSE p

\* a combo that counts the floors of its last jump only
combo_jump_last_only(p, floors_jumped) ==
    [p EXCEPT !.combo_active = TRUE,
              !.total_combo_floors = floors_jumped,
              !.combo_timer = combo_max_time,
              !.combo_floors = floors_jumped,
              !.score = @ + jump_bonus(floors_jumped)]

\* a jump of floors_jumped >= COMBO_MIN_FLOORS floors: start or continue the combo
combo_jump(p, floors_jumped) ==
    [p EXCEPT !.combo_active = TRUE,
              !.total_combo_floors = IF ~p.combo_active THEN floors_jumped
                                     ELSE @ + floors_jumped,
              !.combo_timer = combo_max_time,
              !.combo_floors = floors_jumped,
              !.score = @ + jump_bonus(floors_jumped)]

\* floor tracking that moves last_floor upwards only
floor_tracking_up_only(p, landed_floor) ==
    LET p1 == floor_record(p, landed_floor)
        floors_jumped == landed_floor - p1.last_floor
        p2 == IF floors_jumped >= COMBO_MIN_FLOORS
              THEN combo_jump(p1, floors_jumped)
              ELSE IF p1.combo_active THEN end_combo(p1) ELSE p1
    IN  [p2 EXCEPT !.last_floor = Max(@, landed_floor)]

\* the floor tracking and combo block run at a landing on landed_floor
floor_tracking(p, landed_floor) ==
    LET p1 == floor_record(p, landed_floor)
        floors_jumped == landed_floor - p1.last_floor
        p2 == IF floors_jumped >= COMBO_MIN_FLOORS
              THEN combo_jump(p1, floors_jumped)
              ELSE IF p1.combo_active THEN end_combo(p1) ELSE p1
    IN  [p2 EXCEPT !.last_floor = landed_floor]

\* whether a landing on landed_floor starts or continues a combo
is_combo_jump(p, landed_floor) == landed_floor - p.last_floor >= COMBO_MIN_FLOORS

\* what one update did, for the properties: the collision rule that acted, the
\* landing events processed (with the floor and the floors jumped of the last),
\* the calls of particle_system.add_combo_sparks, the combo fields and the score
\* as they stood when the collision rules were done (before the combo timer),
\* and, under before, the fields as the update found them
NoEvent(p) ==
    [rule |-> "none", landings |-> 0, floor |-> -1, delta |-> 0, sparks |-> 0,
     combo_active |-> p.combo_active, combo_timer |-> p.combo_timer,
     total_combo_floors |-> p.total_combo_floors, score |-> p.score,
     before |-> [combo_active |-> p.combo_active, combo_timer |-> p.combo_timer,
                 total_combo_floors |-> p.total_combo_floors, score |-> p.score,
                 last_floor |-> p.last_floor, highest_floor |-> p.highest_floor]]

Landed(c, rule, platform, p2, sparks) ==
    [p |-> p2,
     ev |-> [rule |-> rule, landings |-> c.ev.landings + 1, floor |-> platform.floor,
             delta |-> platform.floor - c.p.last_floor,
             sparks |-> c.ev.sparks + (IF sparks THEN 1 ELSE 0),
             combo_active |-> p2.combo_active, combo_timer |-> p2.combo_timer,
             total_combo_floors |-> p2.total_combo_floors, score |-> p2.score,
             before |-> c.ev.before]]

Moved(c, rule, p2) == [p |-> p2, ev |-> [c.ev EXCEPT !.rule = rule]]

\* snap onto the platform's top
snap_on_top(p, platform) ==
    [p EXCEPT !.y = Px(platform.y - Player_height), !.vel_y = 0, !.on_ground = TRUE]

\* horizontal movement with acceleration, friction and the speed limit
horizontal_input(p, keys) ==
    LET v1 == IF keys.left THEN p.vel_x - ACCELERATION ELSE p.vel_x
        v2 == IF keys.right THEN v1 + ACCELERATION ELSE v1
        v3 == IF ~(keys.left \/ keys.right) THEN TruncDiv(v2 * FRICTION, 100) ELSE v2
    IN  [p EXCEPT !.vel_x = Max(-Px(MAX_SPEED), Min(Px(MAX_SPEED), v3))]

\* jumping whenever SPACE is held, in the air too
jumping_in_air(p, keys) ==
    IF keys.space
    THEN [p EXCEPT !.vel_y = Px(JUMP_STRENGTH) - TruncDiv(Abs(p.vel_x), MAX_SPEED),
                   !.on_ground = FALSE]
    ELSE p

\* jumping, only from ground/platforms: jump_boost = |vel_x| / MAX_SPEED pixels
jumping(p, keys) ==
    IF keys.space /\ p.on_ground
    THEN [p EXCEPT !.vel_y = Px(JUMP_STRENGTH) - TruncDiv(Abs(p.vel_x), MAX_SPEED),
                   !.on_ground = FALSE]
    ELSE p

\* gravity, then the position update
gravity_and_move(p) ==
    LET vy == p.vel_y + GRAVITY
    IN  [p EXCEPT !.vel_y = vy, !.x = @ + p.vel_x, !.y = @ + vy]

\* wall bouncing
wall_bounce(p) ==
    IF p.x < Px(wall_boundary_left)
    THEN [p EXCEPT !.x = Px(wall_boundary_left),
                   !.vel_x = IF @ < 0 THEN TruncDiv(-@ * WALL_BOUNCE_FACTOR, 100) ELSE @]
    ELSE IF p.x + Px(Player_width) > Px(wall_boundary_right)
    THEN [p EXCEPT !.x = Px(wall_boundary_right - Player_width),
                   !.vel_x = IF @ > 0 THEN TruncDiv(-@ * WALL_BOUNCE_FACTOR, 100) ELSE @]
    ELSE p

\* support_width: how much of the player's width lies over the platform
support_width(p, platform) ==
    LET support_left == Max(p.x, Px(platform.x))
        support_right == Min(p.x + Px(Player_width), Px(platform.x + platform.width))
    IN  Max(0, support_right - support_left)

\* min_support_needed = self.width * 0.5
min_support_needed == Px(Player_width) \div 2

\* -------------------------------------------- Rule A: the ground support check

\* is_below also taking a platform whose top is up to 5 pixels inside the body
is_below_or_inside(p, platform) ==
    /\ Px(platform.y) >= p.y + Px(Player_height) - Px(5)
    /\ Px(platform.y) <= p.y + Px(Player_height) + Px(10)

\* the platform lies below the character, within 10 pixels
is_below(p, platform) ==
    /\ Px(platform.y) >= p.y + Px(Player_height)
    /\ Px(platform.y) <= p.y + Px(Player_height) + Px(10)

\* The scan over platforms: the index of the platform the body snaps to, or 0.
\* The first platform below with enough support ends the scan; the body snaps to
\* it only when it is at most 5 pixels away.
RECURSIVE ground_support(_, _, _)
ground_support(p, platforms, i) ==
    IF i > Len(platforms) THEN 0
    ELSE IF /\ is_below(p, platforms[i])
            /\ support_width(p, platforms[i]) >= min_support_needed
    THEN IF Abs(Px(platforms[i].y) - (p.y + Px(Player_height))) <= Px(5) THEN i ELSE 0
    ELSE ground_support(p, platforms, i + 1)

\* the landing of the ground support check (sparks when a particle system is given)
rule_a_landing(c, platform, particle_system) ==
    LET p1 == snap_on_top(c.p, platform)
    IN  Landed(c, "A", platform, floor_tracking(p1, platform.floor),
               particle_system /\ is_combo_jump(p1, platform.floor))

\* --------------------------------------------------- Rule B: the stunt-jump grab

grab_distance == 35

\* twice enhanced_grab_distance = grab_distance + speed_factor * 15
enhanced_grab_distance2(p) ==
    2 * Px(grab_distance) + (2 * 15 * Abs(p.vel_x)) \div MAX_SPEED

\* grab_rect: the grab zone above the character
grab_rect(p) ==
    [x |-> TruncDiv(p.x - Px(10), Scale),
     y |-> TruncDiv(2 * p.y - enhanced_grab_distance2(p), 2 * Scale),
     w |-> Player_width + 20,
     h |-> TruncDiv(enhanced_grab_distance2(p), 2 * Scale)]

player_center_x(p) == p.x + Px(Player_width \div 2)

\* horizontal_tolerance = 15 + speed_factor * 10
horizontal_tolerance(p) == Px(15) + (10 * Abs(p.vel_x)) \div MAX_SPEED

can_grab(p, platform) ==
    /\ colliderect(grab_rect(p), platform_rect(platform))
    /\ Px(platform.y) < p.y
    /\ 2 * Px(platform.y) > 2 * p.y - enhanced_grab_distance2(p)
    /\ player_center_x(p) >= Px(platform.x) - horizontal_tolerance(p)
    /\ player_center_x(p) <= Px(platform.x + platform.width) + horizontal_tolerance(p)

\* the index of the first platform the body can grab, or 0
RECURSIVE grab_scan(_, _, _)
grab_scan(p, platforms, i) ==
    IF i > Len(platforms) THEN 0
    ELSE IF can_grab(p, platforms[i]) THEN i
    ELSE grab_scan(p, platforms, i + 1)

\* adjust the horizontal position toward the platform
grab_nudge(p, platform) ==
    LET platform_center == Px(platform.x + platform.width \div 2)
    IN  IF Abs(player_center_x(p) - platform_center) > Px(platform.width \div 2)
        THEN IF player_center_x(p) < platform_center
             THEN [p EXCEPT !.x = Max(Px(platform.x - 5), @)]
             ELSE [p EXCEPT !.x = Min(Px(platform.x + platform.width - Player_width + 5), @)]
        ELSE p

\* the grab without its return: the collision loop lands on the platform again
rule_b_landing_no_return(c, platform, particle_system) ==
    LET p0 == grab_nudge(snap_on_top(c.p, platform), platform)
        c1 == Landed(c, "B", platform, floor_tracking(p0, platform.floor), FALSE)
    IN  Landed(c1, "C_top", platform, floor_tracking(c1.p, platform.floor), FALSE)

\* the landing of the grab: this block never calls the particle system
rule_b_landing(c, platform, particle_system) ==
    LET p0 == grab_nudge(snap_on_top(c.p, platform), platform)
    IN  Landed(c, "B", platform, floor_tracking(p0, platform.floor), FALSE)

\* ------------------------------------------- Rule C: the colliding platforms

\* the platforms the player's rectangle collides with, in list order
colliding_platforms(p, platforms) ==
    SelectSeq(platforms,
              LAMBDA platform :
                  colliderect(Rect(p.x, p.y, Player_width, Player_height),
                              platform_rect(platform)))

\* list.sort by y (stable): insert x into the sorted sequence s
RECURSIVE insert_sorted(_, _, _)
insert_sorted(s, x, reverse) ==
    IF s = <<>> THEN <<x>>
    ELSE IF (IF reverse THEN x.y > Head(s).y ELSE x.y < Head(s).y)
    THEN <<x>> \o s
    ELSE <<Head(s)>> \o insert_sorted(Tail(s), x, reverse)

RECURSIVE sort_by_y(_, _)
sort_by_y(s, reverse) ==
    IF s = <<>> THEN <<>>
    ELSE insert_sorted(sort_by_y(SubSeq(s, 1, Len(s) - 1), reverse), s[Len(s)], reverse)

\* sorted with reverse=True when jumping up, ascending when falling
sorted_colliding(p, platforms) ==
    sort_by_y(colliding_platforms(p, platforms), p.vel_y < 0)

overlap_top(p, platform) == (p.y + Px(Player_height)) - Px(platform.y)
overlap_bottom(p, platform) == Px(platform.y + platform.height) - p.y
overlap_left(p, platform) == (p.x + Px(Player_width)) - Px(platform.x)
overlap_right(p, platform) == Px(platform.x + platform.width) - p.x

\* self.height * 0.8
shallow == (Px(Player_height) * 8) \div 10

\* twice a landing_threshold of 20 pixels whatever the speed
landing_threshold2_tight(p) == 2 * Px(20)

\* twice landing_threshold of the hit from below
landing_threshold2(p) ==
    LET base_threshold == 35
    IN  IF Abs(p.vel_x) * 10 > 6 * Px(MAX_SPEED)
        THEN 2 * Px(base_threshold) + (2 * 25 * Abs(p.vel_x)) \div MAX_SPEED
        ELSE IF Abs(p.vel_x) < Px(2)
        THEN 2 * Px(base_threshold + 15)
        ELSE 2 * Px(base_threshold)

\* the push below the platform that leaves the upward speed as it was
bottom_collision_keeps_speed(p, platform) ==
    [p EXCEPT !.y = Px(platform.y + platform.height)]

\* push below the platform
bottom_collision(p, platform) ==
    [p EXCEPT !.y = Px(platform.y + platform.height), !.vel_y = 0]

rule_c_top_landing(c, platform, particle_system) ==
    LET p1 == snap_on_top(c.p, platform)
    IN  Landed(c, "C_top", platform, floor_tracking(p1, platform.floor),
               particle_system /\ is_combo_jump(p1, platform.floor))

\* the landing out of the hit from below: this block never calls the particle system
rule_c_below_landing(c, platform, particle_system) ==
    LET p1 == snap_on_top(c.p, platform)
    IN  Landed(c, "C_below", platform, floor_tracking(p1, platform.floor), FALSE)

\* the side collision bouncing away at full speed
side_collision_elastic(p, platform) ==
    IF overlap_left(p, platform) < overlap_right(p, platform)
    THEN [p EXCEPT !.x = Px(platform.x - Player_width), !.vel_x = -Abs(@)]
    ELSE [p EXCEPT !.x = Px(platform.x + platform.width), !.vel_x = Abs(@)]

\* the side collision: push out on the side hit and bounce away
side_collision(p, platform) ==
    IF overlap_left(p, platform) < overlap_right(p, platform)
    THEN [p EXCEPT !.x = Px(platform.x - Player_width),
                   !.vel_x = -TruncDiv(Abs(@) * SIDE_BOUNCE_FACTOR, 100)]
    ELSE [p EXCEPT !.x = Px(platform.x + platform.width),
                   !.vel_x = TruncDiv(Abs(@) * SIDE_BOUNCE_FACTOR, 100)]

\* the loop over the sorted colliding platforms, from index i on
RECURSIVE rule_c_scan(_, _, _, _)
rule_c_scan(c, cols, i, particle_system) ==
    IF i > Len(cols) THEN c
    ELSE
    LET p == c.p
        platform == cols[i]
    IN  IF p.vel_y >= 0 /\ overlap_top(p, platform) > 0 /\ overlap_top(p, platform) < shallow
        THEN IF support_width(p, platform) >= min_support_needed
             THEN rule_c_top_landing(c, platform, particle_system)
             ELSE rule_c_scan(c, cols, i + 1, particle_system)
        ELSE IF /\ p.vel_y <= 0 /\ overlap_bottom(p, platform) > 0
                /\ overlap_bottom(p, platform) < shallow
        THEN IF support_width(p, platform) * 10 >= Px(Player_width) * 3
             THEN IF 2 * Abs(p.y - Px(platform.y)) < landing_threshold2(p)
                  THEN IF support_width(p, platform) >= min_support_needed
                       THEN rule_c_below_landing(c, platform, particle_system)
                       ELSE Moved(c, "bump", bottom_collision(p, platform))
                  ELSE Moved(c, "bump", bottom_collision(p, platform))
             ELSE rule_c_scan(c, cols, i + 1, particle_system)
        ELSE IF Abs(p.vel_x) * 10 > Scale
        THEN IF /\ Min(overlap_left(p, platform), overlap_right(p, platform)) < Px(8)
                /\ Min(overlap_top(p, platform), overlap_bottom(p, platform)) > Px(10)
                /\ Abs(p.vel_x) > Px(2)
             THEN Moved(c, "side", side_collision(p, platform))
             ELSE rule_c_scan(c, cols, i + 1, particle_system)
        ELSE rule_c_scan(c, cols, i + 1, particle_system)

\* the combo timer ending the combo one tick late
combo_timer_step_late(p) ==
    IF p.combo_active
    THEN LET p1 == [p EXCEPT !.combo_timer = @ - 1]
         IN  IF p1.combo_timer < 0 THEN end_combo(p1) ELSE p1
    ELSE p

\* the combo timer, run when no rule returned early
combo_timer_step(p) ==
    IF p.combo_active
    THEN LET p1 == [p EXCEPT !.combo_timer = @ - 1]
         IN  IF p1.combo_timer <= 0 THEN end_combo(p1) ELSE p1
    ELSE p

\* ------------------------------------------------------------- Player.update

\* the collision rules with the grab open to a body of any sideways speed
resolve_collisions_grab_slow(p, platforms, particle_system) ==
    LET c0 == [p |-> p, ev |-> NoEvent(p)]
        a == IF p.vel_y >= 0 THEN ground_support(p, platforms, 1) ELSE 0
        b == IF p.vel_y < 0 THEN grab_scan(p, platforms, 1) ELSE 0
    IN  IF a > 0 THEN rule_a_landing(c0, platforms[a], particle_system)
        ELSE IF b > 0 THEN rule_b_landing(c0, platforms[b], particle_system)
        ELSE LET c1 == rule_c_scan(c0, sorted_colliding(p, platforms), 1, particle_system)
                 ev1 == [c1.ev EXCEPT !.combo_active = c1.p.combo_active,
                                      !.combo_timer = c1.p.combo_timer,
                                      !.total_combo_floors = c1.p.total_combo_floors,
                                      !.score = c1.p.score]
             IN  [p |-> combo_timer_step(c1.p), ev |-> ev1]

\* the collision rules and the combo timer, on the body moved and wall-clamped
\* with on_ground reset
resolve_collisions(p, platforms, particle_system) ==
    LET c0 == [p |-> p, ev |-> NoEvent(p)]
        a == IF p.vel_y >= 0 THEN ground_support(p, platforms, 1) ELSE 0
        b == IF p.vel_y < 0 /\ Abs(p.vel_x) > Px(4) THEN grab_scan(p, platforms, 1) ELSE 0
    IN  IF a > 0 THEN rule_a_landing(c0, platforms[a], particle_system)
        ELSE IF b > 0 THEN rule_b_landing(c0, platforms[b], particle_system)
        ELSE LET c1 == rule_c_scan(c0, sorted_colliding(p, platforms), 1, particle_system)
                 ev1 == [c1.ev EXCEPT !.combo_active = c1.p.combo_active,
                                      !.combo_timer = c1.p.combo_timer,
                                      !.total_combo_floors = c1.p.total_combo_floors,
                                      !.score = c1.p.score]
             IN  [p |-> combo_timer_step(c1.p), ev |-> ev1]

\* Player.update without the reset of on_ground before the collision rules
Player_update_keeps_ground(p, platforms, keys, particle_system) ==
    LET p1 == wall_bounce(gravity_and_move(jumping(horizontal_input(p, keys), keys)))
    IN  resolve_collisions(p1, platforms, particle_system)

\* Player.update(platforms, current_floor, particle_system) under the held keys:
\* the player afterwards and what the update did
Player_update(p, platforms, keys, particle_system) ==
    LET p1 == wall_bounce(gravity_and_move(jumping(horizontal_input(p, keys), keys)))
    IN  resolve_collisions([p1 EXCEPT !.on_ground = FALSE], platforms, particle_system)

\* ------------------------------------------------------------ AmazonIcyTower

VARIABLES
    player,             \* self.player
    platforms,          \* self.platforms
    camera_y,           \* self.camera_y
    target_camera_y,    \* self.target_camera_y
    scroll_speed,       \* self.scroll_speed
    speedup_timer,      \* self.speedup_timer
    game_over,          \* self.game_over
    keys,               \* the keys held, as pygame.key.get_pressed() reports them
    ticks,              \* update() calls made so far
    ev                  \* what the last update did (see NoEvent)

vars == <<player, platforms, camera_y, target_camera_y, scroll_speed, speedup_timer,
          game_over, keys, ticks, ev>>

\* the held keys modelled: left (LEFT or a), right (RIGHT or d), space, and
\* up (UP or w), which Player.update never reads
AllKeySets == [left : BOOLEAN, right : BOOLEAN, space : BOOLEAN, up : BOOLEAN]

\* the key sets a player switches between in the modelled games
KeySets == { k \in AllKeySets : ~(k.left /\ k.right) /\ ~k.up }

NoKeys == [left |-> FALSE, right |-> FALSE, space |-> FALSE, up |-> FALSE]

\* the player of a new game: bottom on the ground floor's top
new_player == Player(WINDOW_WIDTH \div 2, ground_y - 45)

\* update_camera stepping the speed up one tick after the timer reached zero
update_camera_late_speedup(cam, player_y) ==
    LET player_screen_y == player_y - cam.camera_y
        new_target == player_y - (Px(WINDOW_HEIGHT) * 4) \div 10
        target == IF player_screen_y * 10 < Px(WINDOW_HEIGHT) * 4 /\ new_target < cam.target_camera_y
                  THEN new_target ELSE cam.target_camera_y
        eased == IF target < cam.camera_y
                 THEN cam.camera_y + TruncDiv((target - cam.camera_y) * CAMERA_SMOOTH, 100)
                 ELSE cam.camera_y
        timer == cam.speedup_timer - 1
    IN  [camera_y |-> eased + cam.scroll_speed,
         target_camera_y |-> target,
         scroll_speed |-> IF timer < 0 THEN cam.scroll_speed + SCROLL_SPEED_STEP
                          ELSE cam.scroll_speed,
         speedup_timer |-> IF timer < 0 THEN SPEEDUP_TICKS ELSE timer]

\* update_camera with a target that follows the player down as well as up
update_camera_target_follows(cam, player_y) ==
    LET player_screen_y == player_y - cam.camera_y
        new_target == player_y - (Px(WINDOW_HEIGHT) * 4) \div 10
        target == IF player_screen_y * 10 < Px(WINDOW_HEIGHT) * 4
                  THEN new_target ELSE cam.target_camera_y
        eased == IF target < cam.camera_y
                 THEN cam.camera_y + TruncDiv((target - cam.camera_y) * CAMERA_SMOOTH, 100)
                 ELSE cam.camera_y
        timer == cam.speedup_timer - 1
    IN  [camera_y |-> eased + cam.scroll_speed,
         target_camera_y |-> target,
         scroll_speed |-> IF timer <= 0 THEN cam.scroll_speed + SCROLL_SPEED_STEP
                          ELSE cam.scroll_speed,
         speedup_timer |-> IF timer <= 0 THEN SPEEDUP_TICKS ELSE timer]

\* update_camera easing past its target, by 115% of the distance
update_camera_overshoot(cam, player_y) ==
    LET player_screen_y == player_y - cam.camera_y
        new_target == player_y - (Px(WINDOW_HEIGHT) * 4) \div 10
        target == IF player_screen_y * 10 < Px(WINDOW_HEIGHT) * 4 /\ new_target < cam.target_camera_y
                  THEN new_target ELSE cam.target_camera_y
        eased == IF target < cam.camera_y
                 THEN cam.camera_y + TruncDiv((target - cam.camera_y) * 115, 100)
                 ELSE cam.camera_y
        timer == cam.speedup_timer - 1
    IN  [camera_y |-> eased + cam.scroll_speed,
         target_camera_y |-> target,
         scroll_speed |-> IF timer <= 0 THEN cam.scroll_speed + SCROLL_SPEED_STEP
                          ELSE cam.scroll_speed,
         speedup_timer |-> IF timer <= 0 THEN SPEEDUP_TICKS ELSE timer]

\* update_camera: the camera fields afterwards, for the player's y
update_camera(cam, player_y) ==
    LET player_screen_y == player_y - cam.camera_y
        new_target == player_y - (Px(WINDOW_HEIGHT) * 4) \div 10
        target == IF player_screen_y * 10 < Px(WINDOW_HEIGHT) * 4 /\ new_target < cam.target_camera_y
                  THEN new_target ELSE cam.target_camera_y
        eased == IF target < cam.camera_y
                 THEN cam.camera_y + TruncDiv((target - cam.camera_y) * CAMERA_SMOOTH, 100)
                 ELSE cam.camera_y
        timer == cam.speedup_timer - 1
    IN  [camera_y |-> eased + cam.scroll_speed,
         target_camera_y |-> target,
         scroll_speed |-> IF timer <= 0 THEN cam.scroll_speed + SCROLL_SPEED_STEP
                          ELSE cam.scroll_speed,
         speedup_timer |-> IF timer <= 0 THEN SPEEDUP_TICKS ELSE timer]

\* check_game_over ending the game on the bottom edge itself
check_game_over_on_edge(over, player_y, cam_y) ==
    IF player_y - cam_y >= Px(WINDOW_HEIGHT) THEN TRUE ELSE over

\* check_game_over: whether the game is over now
check_game_over(over, player_y, cam_y) ==
    IF player_y - cam_y > Px(WINDOW_HEIGHT) THEN TRUE ELSE over

\* AmazonIcyTower.__init__
Init ==
    /\ player = new_player
    /\ platforms \in Towers
    /\ camera_y = 0
    /\ target_camera_y = 0
    /\ scroll_speed = SCROLL_SPEED_0
    /\ speedup_timer = SPEEDUP_TICKS
    /\ game_over = FALSE
    /\ keys = NoKeys
    /\ ticks = 0
    /\ ev = NoEvent(new_player)

\* the keys held at the next update: the player may change them on the modelled
\* schedule only
HeldKeys(k) ==
    \/ k = keys
    \/ k \in KeySets /\ ticks % ChangePeriod = 0 /\ ticks < ChangeWindow

\* AmazonIcyTower.update: one tick (the game passes no particle system)
AmazonIcyTower_update(k) ==
    /\ ticks < MaxTicks
    /\ HeldKeys(k)
    /\ keys' = k
    /\ ticks' = ticks + 1
    /\ platforms' = platforms
    /\ IF ~game_over
       THEN \E u \in {Player_update(player, platforms, k, FALSE)} :
            \E cam \in {update_camera([camera_y |-> camera_y,
                                      target_camera_y |-> target_camera_y,
                                      scroll_speed |-> scroll_speed,
                                      speedup_timer |-> speedup_timer], u.p.y)} :
                /\ player' = u.p
                /\ ev' = u.ev
                /\ camera_y' = cam.camera_y
                /\ target_camera_y' = cam.target_camera_y
                /\ scroll_speed' = cam.scroll_speed
                /\ speedup_timer' = cam.speedup_timer
                /\ game_over' = check_game_over(game_over, u.p.y, cam.camera_y)
       ELSE /\ ev' = [NoEvent(player) EXCEPT !.rule = "frozen"]
            /\ UNCHANGED <<player, camera_y, target_camera_y, scroll_speed,
                           speedup_timer, game_over>>

\* restart_game leaving the speed-up timer where the last game stopped
restart_game_keeps_timer ==
    /\ player' = new_player
    /\ camera_y' = 0
    /\ target_camera_y' = 0
    /\ platforms' \in Towers
    /\ game_over' = FALSE
    /\ scroll_speed' = SCROLL_SPEED_0
    /\ speedup_timer' = speedup_timer
    /\ ev' = [NoEvent(new_player) EXCEPT !.rule = "restart"]

\* restart_game
restart_game ==
    /\ player' = new_player
    /\ camera_y' = 0
    /\ target_camera_y' = 0
    /\ platforms' \in Towers
    /\ game_over' = FALSE
    /\ scroll_speed' = SCROLL_SPEED_0
    /\ speedup_timer' = SPEEDUP_TICKS
    /\ ev' = [NoEvent(new_player) EXCEPT !.rule = "restart"]

\* handle_events restarting on SPACE whatever the state of the game
handle_events_space_always ==
    /\ restart_game
    /\ UNCHANGED <<keys, ticks>>

\* handle_events on a KEYDOWN of SPACE
handle_events_space ==
    /\ IF game_over THEN restart_game
       ELSE UNCHANGED <<player, platforms, camera_y, target_camera_y, scroll_speed,
                        speedup_timer, game_over, ev>>
    /\ UNCHANGED <<keys, ticks>>

Tick == \E k \in KeySets : AmazonIcyTower_update(k)

Next == Tick \/ handle_events_space

Spec == Init /\ [][Next]_vars


\* ------------------------------------------------- Player.update on drawn states

\* Mid-game states drawn from bounded sets: the body near the platform of a floor
\* (dx, dy from the platform's left top corner, in fixed-point units), moving or
\* at rest, with or without a running combo, the camera at or near the place
\* where the body leaves the screen.
DrawnCombos ==
    { [combo_active |-> FALSE, combo_timer |-> 0, combo_floors |-> 0, total_combo_floors |-> 0],
      [combo_active |-> TRUE, combo_timer |-> 1, combo_floors |-> 2, total_combo_floors |-> 2],
      [combo_active |-> TRUE, combo_timer |-> 2, combo_floors |-> 3, total_combo_floors |-> 7] }

\* the floor landed on last and the floor record: the record is that floor or the
\* top floor modelled
DrawnFloors ==
    { fl \in [last_floor : {0, 1, 3}, highest_floor : {0, 1, 3, NumFloors}] :
        fl.highest_floor \in {fl.last_floor, NumFloors} }

DrawnPlayers(tower) ==
    { [x |-> Px(tower[f + 1].x) + dx, y |-> Px(tower[f + 1].y) + dy,
       vel_x |-> vx, vel_y |-> vy, on_ground |-> FALSE,
       combo_active |-> c.combo_active, combo_floors |-> c.combo_floors,
       combo_timer |-> c.combo_timer, total_combo_floors |-> c.total_combo_floors,
       last_floor |-> fl.last_floor, highest_floor |-> fl.highest_floor, score |-> 170] :
        f \in 2..4, dx \in {-18000, 10000},
        dy \in {-100000, -52000, -47000, 10000, 32000},
        vx \in {0, 5000}, vy \in {-6000, 0, 4000},
        c \in DrawnCombos, fl \in DrawnFloors }

\* camera positions for a drawn body: the body mid-screen, the body reaching the
\* bottom edge exactly with the next free-fall step, the body just above the edge
DrawnCameras(p) ==
    { p.y - Px(300), p.y + p.vel_y + GRAVITY - SCROLL_SPEED_0 - Px(WINDOW_HEIGHT),
      p.y - Px(WINDOW_HEIGHT - 1) }

\* the speed-up timer of a mid-game state: freshly loaded, or two ticks before
\* the first speed-up (for the mid-screen camera)
DrawnTimers(p, cam) ==
    IF cam = p.y - Px(300) THEN {SPEEDUP_TICKS, 2} ELSE {SPEEDUP_TICKS}

InitUpdate ==
    /\ platforms \in Towers
    /\ player \in DrawnPlayers(platforms)
    /\ camera_y \in DrawnCameras(player)
    /\ target_camera_y = camera_y
    /\ scroll_speed = SCROLL_SPEED_0
    /\ speedup_timer \in DrawnTimers(player, camera_y)
    /\ game_over = FALSE
    /\ keys \in {NoKeys, [left |-> TRUE, right |-> FALSE, space |-> TRUE, up |-> FALSE]}
    /\ ticks = UpdateStart
    /\ ev = NoEvent(player)

SpecUpdate == InitUpdate /\ [][Next]_vars

\* ------------------------------------------------------ games with the keys held

\* the key sets held through a whole game: none, each single key, and the
\* combinations with a direction
HeldKeySets == { k \in AllKeySets : ~(k.left /\ k.right) /\ ~(k.space /\ k.up) }

InitHeld ==
    /\ player = new_player
    /\ platforms \in Towers
    /\ camera_y = 0
    /\ target_camera_y = 0
    /\ scroll_speed = SCROLL_SPEED_0
    /\ speedup_timer = SPEEDUP_TICKS
    /\ game_over = FALSE
    /\ keys \in HeldKeySets
    /\ ticks = 0
    /\ ev = NoEvent(new_player)

\* the run loop with no key event: update() after update() under the keys held
HeldTick == AmazonIcyTower_update(keys)

\* the clock runs the loop 60 times a second for as long as the game runs
SpecHeld == InitHeld /\ [][HeldTick]_vars /\ WF_vars(HeldTick)

\* ------------------------------------------------------- the whole tower

\* the last floor of `for floor in range(1, 200)`
TOWER_FLOORS == 199

\* self.platforms after generate_tower with all its floors
generate_whole_tower(draws) ==
    <<ground_platform>> \o [f \in 1..TOWER_FLOORS |-> gen_platform(f, draws[f])]

\* the random streams of the whole towers modelled, as in RandomStreams
TowerStreams ==
    [len0 : 0..3, lenStep : {0, 1}, pos0 : 0..3, posStep : {0, 1},
     r0 : {0, 17}, rStep : {1, 7}]

TowerDrawsOf(s) ==
    [f \in 1..TOWER_FLOORS |->
        [len |-> s.len0 + f * s.lenStep, pos |-> s.pos0 + f * s.posStep,
         r |-> s.r0 + f * s.rStep]]

\* AmazonIcyTower.__init__ up to self.platforms = []
InitTower ==
    /\ player = new_player
    /\ platforms = <<>>
    /\ camera_y = 0
    /\ target_camera_y = 0
    /\ scroll_speed = SCROLL_SPEED_0
    /\ speedup_timer = SPEEDUP_TICKS
    /\ game_over = FALSE
    /\ keys = NoKeys
    /\ ticks = 0
    /\ ev = NoEvent(new_player)

\* self.generate_tower() on the empty list
AmazonIcyTower_generate_tower ==
    /\ platforms = <<>>
    /\ \E s \in TowerStreams : platforms' = generate_whole_tower(TowerDrawsOf(s))
    /\ UNCHANGED <<player, camera_y, target_camera_y, scroll_speed, speedup_timer,
                   game_over, keys, ticks, ev>>

SpecTower == InitTower /\ [][AmazonIcyTower_generate_tower]_vars

\* ------------------------------------------- Player.update on stacked platforms

\* a platform dict as Player.update reads it
platform_at(x, y, w, floor) ==
    [x |-> x, y |-> y, width |-> w, height |-> PLATFORM_HEIGHT, floor |-> floor,
     checkpoint |-> FALSE]

\* platform lists handed to Player.update in which two platforms lie close
\* enough for one body to overlap both, in either list order
StackedPlatforms ==
    { <<ground_platform, platform_at(300, 300, 200, f1), platform_at(300, 300 + gap, 200, f2)>> :
        f1 \in {1, 2}, f2 \in {1, 2}, gap \in {-20, 20} }

\* bodies around the stacked platforms, rising or falling, with no sideways speed
StackedPlayers ==
    { [Player(385, 0) EXCEPT !.y = Px(y), !.vel_y = vy, !.on_ground = FALSE] :
        y \in 260..340, vy \in {-3000, 1500} }

InitStacked ==
    /\ platforms \in StackedPlatforms
    /\ player \in StackedPlayers
    /\ camera_y = 0
    /\ target_camera_y = 0
    /\ scroll_speed = SCROLL_SPEED_0
    /\ speedup_timer = SPEEDUP_TICKS
    /\ game_over = FALSE
    /\ keys = NoKeys
    /\ ticks = UpdateStart
    /\ ev = NoEvent(player)

SpecStacked == InitStacked /\ [][Tick]_vars

\* ------------------------------------------------------------------ properties

\* a step that is one update() call
IsTick == ticks' # ticks

\* C1: across every tick of a run, player.score and player.highest_floor never
\* decrease, and the score is never negative
C1_Monotone ==
    /\ player.score >= 0
    /\ [][IsTick => /\ player'.score >= player.score
                    /\ player'.highest_floor >= player.highest_floor
                    /\ player'.score >= 0]_vars

\* a landing that raised the floor record and the score
C1_Witness ==
    /\ ev.landings = 1
    /\ player.highest_floor > ev.before.highest_floor
    /\ player.score > ev.before.score

\* C2: at the end of every tick the body's x lies within
\* [wall_boundary_left, wall_boundary_right - width] = [100, 670]
C2_WallContainment ==
    /\ player.x >= Px(wall_boundary_left)
    /\ player.x <= Px(wall_boundary_right - Player_width)

\* C3: one call of Player.update processes at most one landing event
C3_OneLanding == ev.landings <= 1

\* an update that landed on a platform the body merely collided with
C3_Witness == ev.landings = 1 /\ ev.rule \in {"C_top", "C_below"}

\* the floor record's flat bonus due to an update, by the floor it landed on
RecordBonus ==
    IF ev'.landings = 1 /\ ev'.floor > player.highest_floor /\ ev'.floor > 0
    THEN 10 ELSE 0

\* the floors jumped by the landing of an update
Delta == ev'.floor - player.last_floor

\* C4: a landing with delta = landed floor - last_floor = 1 neither starts nor
\* continues a combo; a landing with delta >= 2 leaves combo_active true,
\* total_combo_floors grown by delta (set to delta when no combo was active)
\* and combo_timer reset to 180 (from which a Rule C landing's own update
\* counts the first tick down)
C4_ComboDelta ==
    [][IsTick /\ ev'.landings = 1 =>
          /\ Delta = 1 => /\ ~ev'.combo_active /\ ~player'.combo_active
                          /\ player'.total_combo_floors <= player.total_combo_floors
          /\ Delta >= 2 =>
                LET total == IF player.combo_active
                             THEN player.total_combo_floors + Delta ELSE Delta
                IN  /\ ev'.combo_active /\ ev'.total_combo_floors = total
                    /\ ev'.combo_timer = combo_max_time
                    /\ player'.combo_active /\ player'.total_combo_floors = total
                    /\ player'.combo_timer =
                           IF ev'.rule \in {"A", "B"} THEN combo_max_time
                           ELSE combo_max_time - 1]_vars

\* a landing two or more floors up that continued a running combo
C4_Witness ==
    /\ ev.landings = 1 /\ ev.delta >= 2 /\ ev.before.combo_active
    /\ player.total_combo_floors = ev.before.total_combo_floors + ev.delta

\* C5: at the end of every tick combo_active = (combo_timer > 0), and an active
\* combo has total_combo_floors > 0
C5_ComboInvariant ==
    /\ player.combo_active <=> player.combo_timer > 0
    /\ player.combo_active => player.total_combo_floors > 0

\* a combo still running after its timer was counted down
C5_Witness ==
    /\ ev.before.combo_active /\ player.combo_active
    /\ player.combo_timer = ev.before.combo_timer - 1

\* C6: ending a combo, by a landing with delta < 2 or by the timer running out,
\* adds exactly total_combo_floors^2 * 10 to the score (next to the floor
\* record's bonus of the landing) and clears all combo fields
C6_EndCombo ==
    [][/\ IsTick /\ ~game_over /\ player.combo_active
       /\ \/ ev'.landings = 1 /\ Delta < 2
          \/ ev'.landings = 0 /\ player.combo_timer = 1
       => /\ player'.score = player.score + RecordBonus
                + player.total_combo_floors * player.total_combo_floors * 10
          /\ ~player'.combo_active /\ player'.combo_floors = 0
          /\ player'.total_combo_floors = 0 /\ player'.combo_timer = 0]_vars

\* a combo of 7 floors ended by a landing not above the last floor: 490 points
C6_Witness ==
    /\ ev.landings = 1 /\ ev.delta <= 0
    /\ ev.before.combo_active /\ ev.before.total_combo_floors = 7
    /\ player.score = ev.before.score + 490
    /\ ~player.combo_active /\ player.total_combo_floors = 0

\* C7: a landing with delta >= 2 adds the per-jump bonus (20 for 2 floors, 50
\* for 3, 25 * delta from 4 on) and 10 more on a new highest floor > 0, whichever
\* rule landed; floor 2 from floor 0 with no record yet gives +30 and a combo of 2
C7_JumpBonus ==
    [][IsTick /\ ev'.landings = 1 /\ Delta >= 2 =>
          /\ ev'.rule \in {"A", "B", "C_top", "C_below"}
          /\ player'.score = player.score + RecordBonus
                + (IF Delta = 2 THEN 20 ELSE IF Delta = 3 THEN 50 ELSE 25 * Delta)
          /\ ( /\ ev'.floor = 2 /\ player.last_floor = 0
               /\ player.highest_floor = 0 /\ ~player.combo_active )
             => /\ player'.score = player.score + 30
                /\ player'.combo_active /\ player'.total_combo_floors = 2]_vars

\* the landing on floor 2 from floor 0 that opened a combo and paid 30 points
C7_Witness ==
    /\ ev.landings = 1 /\ ev.floor = 2
    /\ ev.before.last_floor = 0 /\ ev.before.highest_floor = 0
    /\ ~ev.before.combo_active
    /\ player.score = ev.before.score + 30
    /\ player.combo_active /\ player.total_combo_floors = 2

\* C8: a running combo's timer never exceeds 180 and every update of play
\* without a landing counts it down by one, so the combo ends within 180 such
\* updates of the landing that set it; the update that finds the timer at 1
\* ends the combo, pays total_combo_floors^2 * 10 and clears the combo fields
C8_ComboWindow ==
    /\ player.combo_timer <= combo_max_time
    /\ [][/\ player'.combo_timer <= combo_max_time
          /\ IsTick /\ ~game_over /\ player.combo_active /\ ev'.landings = 0 =>
                IF player.combo_timer > 1
                THEN /\ player'.combo_active
                     /\ player'.combo_timer = player.combo_timer - 1
                     /\ player'.total_combo_floors = player.total_combo_floors
                     /\ player'.score = player.score
                ELSE /\ ~player'.combo_active /\ player'.combo_timer = 0
                     /\ player'.combo_floors = 0 /\ player'.total_combo_floors = 0
                     /\ player'.score = player.score
                            + player.total_combo_floors * player.total_combo_floors * 10]_vars

\* an update without landing that found the timer at 1 and ended the combo
C8_Witness ==
    /\ ev.rule \notin {"frozen", "restart"} /\ ev.landings = 0
    /\ ev.before.combo_active /\ ev.before.combo_timer = 1
    /\ ~player.combo_active /\ player.combo_timer = 0
    /\ player.score = ev.before.score
           + ev.before.total_combo_floors * ev.before.total_combo_floors * 10

\* C9: game_over becomes true in exactly the first tick after which
\* player.y - camera_y > WINDOW_HEIGHT (strictly), and in no other step
C9_GameOver ==
    /\ ~game_over
    /\ [][/\ IsTick /\ ~game_over =>
                (game_over' <=> player'.y - camera_y' > Px(WINDOW_HEIGHT))
          /\ ~IsTick => ~game_over']_vars

\* the tick that ended the game
C9_Witness ==
    /\ game_over /\ ev.rule \notin {"frozen", "restart"}
    /\ player.y - camera_y > Px(WINDOW_HEIGHT)

\* C10: once game_over is true every tick leaves the player, the camera, the
\* scroll speed and the speed-up timer unchanged, and a SPACE key-down during
\* normal play resets nothing
C10_Terminal ==
    [][/\ IsTick /\ game_over =>
             UNCHANGED <<player, platforms, camera_y, target_camera_y, scroll_speed,
                         speedup_timer, game_over>>
       /\ ~IsTick /\ ~game_over =>
             UNCHANGED <<player, platforms, camera_y, target_camera_y, scroll_speed,
                         speedup_timer, game_over>>]_vars

\* a tick passed after the game was over
C10_Witness == game_over /\ ev.rule = "frozen"

\* the fields of a freshly constructed game (the tower aside, which is drawn anew)
IsFresh ==
    /\ player = [x |-> Px(400), y |-> Px(455), vel_x |-> 0, vel_y |-> 0,
                 on_ground |-> TRUE, combo_active |-> FALSE, combo_floors |-> 0,
                 combo_timer |-> 0, total_combo_floors |-> 0, last_floor |-> 0,
                 highest_floor |-> 0, score |-> 0]
    /\ camera_y = 0 /\ target_camera_y = 0
    /\ scroll_speed = Scale \div 10 /\ speedup_timer = 1800
    /\ ~game_over

\* C11: the restart from a game-over state yields the fields of a freshly
\* constructed game, and a second restart command in a row leaves them so
C11_Restart ==
    /\ IsFresh
    /\ [][/\ ~IsTick /\ game_over => IsFresh'
          /\ ~IsTick /\ IsFresh => IsFresh']_vars

\* a game restarted after it was over
C11_Witness == ev.rule = "restart" /\ IsFresh


\* where the player stands on the screen: check_game_over ends the game when
\* this exceeds WINDOW_HEIGHT
player_screen_y == player.y - camera_y

\* a running game in which the player gives no input
Idle == keys = NoKeys /\ ~game_over

\* C12: with no input the forced scroll moves the camera away from the player
\* on every tick, towards the game-over condition player.y - camera_y > 600:
\* the player rests at y <= 456, so camera_y has to fall on every tick (and
\* below -144 in the end).
C12_ForcedScroll == [][IsTick /\ Idle => camera_y' < camera_y]_vars

\* C13: camera_y moves one way only over a run. The first tick of every game
\* raises camera_y from 0 to scroll_speed (the forced scroll), so a run has no
\* tick that lowers camera_y: the easing towards target_camera_y never
\* outweighs the forced scroll.
C13_OneDirection == [][IsTick => camera_y' >= camera_y]_vars

\* the non-game-over ticks a run has behind it, read off the speed-up state:
\* 1800 for every step taken, plus what the timer has counted down
run_ticks ==
    ((scroll_speed - SCROLL_SPEED_0) \div SCROLL_SPEED_STEP) * SPEEDUP_TICKS
        + (SPEEDUP_TICKS - speedup_timer)

\* C14: scroll_speed is 0.1 + 0.05 * floor(n / 1800) after n non-game-over
\* ticks of a run: the timer stays in 1..1800, every non-game-over tick counts
\* n up by one (the step falls when the timer reaches 0, which reloads it), a
\* game-over tick leaves both alone, no tick lowers scroll_speed, and any
\* other step (restart_game) sets 0.1 and 1800, that is n = 0.
C14_ScrollSpeed ==
    /\ [](/\ speedup_timer \in 1..SPEEDUP_TICKS
          /\ scroll_speed >= SCROLL_SPEED_0
          /\ (scroll_speed - SCROLL_SPEED_0) % SCROLL_SPEED_STEP = 0)
    /\ [][/\ IsTick /\ ~game_over => run_ticks' = run_ticks + 1
          /\ IsTick /\ game_over => UNCHANGED <<scroll_speed, speedup_timer>>
          /\ IsTick => scroll_speed' >= scroll_speed
          /\ ~IsTick => scroll_speed' = SCROLL_SPEED_0 /\ speedup_timer' = SPEEDUP_TICKS]_vars

\* the first speed-up has happened: 0.15 with the timer reloaded
C14_Witness ==
    /\ scroll_speed = SCROLL_SPEED_0 + SCROLL_SPEED_STEP
    /\ speedup_timer = SPEEDUP_TICKS
    /\ run_ticks = SPEEDUP_TICKS

\* the body as the collision rules of a tick under keys k find it
moved_body(k) ==
    [wall_bounce(gravity_and_move(jumping(horizontal_input(player, k), k)))
        EXCEPT !.on_ground = FALSE]

\* Rule C classifies the hit on platform q as a landing from above / a hit from below
top_class(m, q) ==
    m.vel_y >= 0 /\ overlap_top(m, q) > 0 /\ overlap_top(m, q) * 10 < Px(Player_height) * 8
bottom_class(m, q) ==
    m.vel_y <= 0 /\ overlap_bottom(m, q) > 0 /\ overlap_bottom(m, q) * 10 < Px(Player_height) * 8

\* the penetrations of a side hit: smaller horizontal one < 8, smaller vertical
\* one > 10, and |vx| > 2
side_hit(m, q) ==
    /\ ~top_class(m, q) /\ ~bottom_class(m, q)
    /\ Min(overlap_left(m, q), overlap_right(m, q)) < Px(8)
    /\ Min(overlap_top(m, q), overlap_bottom(m, q)) > Px(10)
    /\ Abs(m.vel_x) > Px(2)

\* body m bounced off the side of q into p2
side_bounced(m, q, p2) ==
    /\ IF overlap_left(m, q) < overlap_right(m, q)
       THEN p2.x = Px(q.x) - Px(Player_width) /\ p2.vel_x = -TruncDiv(Abs(m.vel_x) * 7, 10)
       ELSE p2.x = Px(q.x + q.width) /\ p2.vel_x = TruncDiv(Abs(m.vel_x) * 7, 10)
    /\ p2.y = m.y /\ p2.vel_y = m.vel_y /\ ~p2.on_ground
    /\ p2.last_floor = m.last_floor /\ p2.highest_floor = m.highest_floor

\* C15: a tick whose collision is a side bounce hit a colliding platform with
\* neither classification, horizontal penetration < 8, vertical penetration
\* > 10 and |vx| > 2: the body stands outside the platform on the side it hit,
\* vx is 0.7 |vx| away from it, vy, on_ground = false and the floors are as
\* they were, and nothing landed. When Rules A and B found nothing and the one
\* colliding platform is hit like that, the tick is a side bounce.
C15_SideBounce ==
    [][IsTick /\ ~game_over =>
        /\ ev'.rule = "side" =>
              /\ \E i \in 1..Len(platforms) :
                    /\ colliderect(Rect(moved_body(keys').x, moved_body(keys').y,
                                        Player_width, Player_height),
                                   platform_rect(platforms[i]))
                    /\ side_hit(moved_body(keys'), platforms[i])
                    /\ side_bounced(moved_body(keys'), platforms[i], player')
              /\ ev'.landings = 0
              /\ player'.last_floor = player.last_floor
              /\ player'.highest_floor = player.highest_floor
        /\ ( /\ ev'.rule \notin {"A", "B"}
             /\ Len(colliding_platforms(moved_body(keys'), platforms)) = 1
             /\ side_hit(moved_body(keys'),
                         colliding_platforms(moved_body(keys'), platforms)[1]) )
           => ev'.rule = "side"]_vars

\* a side bounce off a platform's left edge
C15_Witness ==
    /\ ev.rule = "side" /\ player.vel_x < 0
    /\ \E i \in 1..Len(platforms) : player.x = Px(platforms[i].x) - Px(Player_width)

\* the last tick held a landing that starts or continues a combo
ComboLanding == ev.landings >= 1 /\ ev.delta >= COMBO_MIN_FLOORS

\* C16: in the running game add_combo_sparks is called exactly once in a tick
\* with a landing that starts or continues a combo, whichever rule made the
\* landing, and not at all in any other tick.
C16_Sparks == ev.sparks = (IF ComboLanding THEN 1 ELSE 0)

\* C17: generate_tower leaves one platform per floor 0..199 in floor order,
\* at y = 500 - 100 * floor and 30 high; every positive multiple of 10 is a
\* checkpoint at x = 100, 600 wide; every other platform above the ground is
\* at least 30 wide and lies within the playable area, 120 <= x and
\* x + width <= 680.
C17_Tower ==
    platforms # <<>> =>
        /\ Len(platforms) = 200
        /\ \A i \in 1..Len(platforms) :
              LET q == platforms[i]
              IN  /\ q.floor = i - 1
                  /\ q.y = 500 - 100 * q.floor
                  /\ q.height = 30
                  /\ q.floor >= 1 /\ q.floor % 10 = 0 =>
                        q.checkpoint /\ q.x = 100 /\ q.width = 600
                  /\ q.floor >= 1 /\ q.floor % 10 # 0 =>
                        /\ ~q.checkpoint
                        /\ q.width >= 30
                        /\ 120 <= q.x /\ q.x + q.width <= 680

\* a whole tower with a platform of the least width and one ending where the
\* playable area ends
C17_Witness ==
    /\ Len(platforms) = 200
    /\ \E i \in 1..Len(platforms) : platforms[i].width = 30
    /\ \E i \in 1..Len(platforms) :
          ~platforms[i].checkpoint /\ platforms[i].x + platforms[i].width = 680

\* the tick's collision rules left vel_y as gravity made it
FreeFlight == ev'.rule \in {"none", "side"}

\* C18: a tick applies the jump impulse only to a body that ended the last
\* tick grounded, with jump pressed: vy is then JUMP_STRENGTH - |vx| / MAX_SPEED
\* (from -9 to -8) plus the tick's gravity and on_ground is false; any other
\* tick adds only gravity to vy; and for an airborne body the whole tick is
\* the same as with the jump key released.
C18_Jump ==
    [][IsTick /\ ~game_over =>
        /\ player.on_ground /\ keys'.space /\ FreeFlight =>
              /\ player'.vel_y = Px(JUMP_STRENGTH) + GRAVITY
                    - TruncDiv(Abs(horizontal_input(player, keys').vel_x), MAX_SPEED)
              /\ player'.vel_y - GRAVITY \in Px(-9)..Px(-8)
              /\ ~player'.on_ground
        /\ ~(player.on_ground /\ keys'.space) /\ FreeFlight =>
              player'.vel_y = player.vel_y + GRAVITY
        /\ ~player.on_ground =>
              player' = Player_update(player, platforms,
                                      [keys' EXCEPT !.space = FALSE], FALSE).p]_vars

\* a jump from the ground at speed: the impulse is stronger than JUMP_STRENGTH
C18_Witness ==
    /\ keys.space /\ ~player.on_ground /\ ev.rule = "none"
    /\ player.vel_y < Px(JUMP_STRENGTH) + GRAVITY

\* C19: the documented controls: with Up or W held, a grounded player jumps
\* in the tick exactly as with SPACE held.
C19_UpJumps ==
    [][IsTick /\ ~game_over /\ player.on_ground /\ keys'.up =>
        player' = Player_update(player, platforms,
                                [keys' EXCEPT !.space = TRUE], FALSE).p]_vars

\* C20: every tick with a combo active takes exactly one off combo_timer,
\* landing or not: a tick without a landing leaves timer - 1, and a tick with
\* a landing that starts or continues a combo, which loads the timer with
\* combo_max_time, ends with 179, whichever rule made the landing.
C20_TimerEveryTick ==
    [][IsTick /\ ~game_over =>
        /\ player.combo_active /\ ev'.landings = 0 =>
              player'.combo_timer = player.combo_timer - 1
        /\ ev'.landings >= 1 /\ ev'.delta >= COMBO_MIN_FLOORS =>
              player'.combo_timer = combo_max_time - 1]_vars

\* the order in which C21 has Rule C take the colliding platforms: smallest y
\* first for a rising body, largest y first for a falling or resting one
claimed_order(p, platform_list) ==
    sort_by_y(colliding_platforms(p, platform_list), p.vel_y >= 0)

gap_below(m, q) == Px(q.y) - (m.y + Px(Player_height))

\* q supports body m from below: its top is at or below the body's bottom by
\* at most d pixels, under at least half the body's width
supports(m, q, d) ==
    /\ gap_below(m, q) >= 0 /\ gap_below(m, q) <= Px(d)
    /\ 2 * support_width(m, q) >= Px(Player_width)

\* C22: Rule A. A body with vy >= 0 after integration and a supporting
\* platform at most 5 below ends the tick standing on it (bottom on its top,
\* vy = 0, on_ground), with one landing for its floor made by Rule A alone, and
\* Rule A lands in no other case; when the only supporting platform within 10
\* is more than 5 below, nothing lands and the body is left airborne as
\* integration moved it.
C22_RuleA ==
    [][IsTick /\ ~game_over =>
        \E m \in {moved_body(keys')} :
            /\ \A i \in 1..Len(platforms) :
                  m.vel_y >= 0 /\ supports(m, platforms[i], 5) =>
                      /\ player'.y + Px(Player_height) = Px(platforms[i].y)
                      /\ player'.vel_y = 0 /\ player'.on_ground
                      /\ player'.x = m.x /\ player'.vel_x = m.vel_x
                      /\ ev'.rule = "A" /\ ev'.landings = 1
                      /\ ev'.floor = platforms[i].floor
                      /\ player'.last_floor = platforms[i].floor
            /\ ev'.rule = "A" =>
                  m.vel_y >= 0 /\ \E i \in 1..Len(platforms) : supports(m, platforms[i], 5)
            /\ \A i \in 1..Len(platforms) :
                  ( /\ m.vel_y >= 0
                    /\ supports(m, platforms[i], 10) /\ ~supports(m, platforms[i], 5)
                    /\ \A j \in 1..Len(platforms) :
                          supports(m, platforms[j], 10) => j = i ) =>
                      /\ ev'.landings = 0 /\ ev'.rule = "none"
                      /\ ~player'.on_ground
                      /\ player'.x = m.x /\ player'.y = m.y
                      /\ player'.vel_x = m.vel_x /\ player'.vel_y = m.vel_y]_vars

\* a Rule A landing on a platform above the ground that the body fell onto
C22_Witness ==
    /\ ev.rule = "A" /\ ev.landings = 1 /\ ev.floor >= 1 /\ ev.delta >= 1
    /\ player.on_ground /\ player.vel_y = 0
    /\ player.y = Px(platforms[ev.floor + 1].y - Player_height)

\* twice the reach of the grab, 35 + 15 * |vx| / MAX_SPEED
reach2(m) == 2 * Px(35) + 3 * Abs(m.vel_x)

\* platform q is one Rule B grabs for body m: it meets the grab window, its
\* top lies strictly above the body's top and strictly within reach, and the
\* body's centre is within 15 + 10 * |vx| / MAX_SPEED of its extent
grabbable(m, q) ==
    /\ colliderect(grab_rect(m), platform_rect(q))
    /\ Px(q.y) < m.y
    /\ 2 * (m.y - Px(q.y)) < reach2(m)
    /\ m.x + Px(15) >= Px(q.x) - (Px(15) + Abs(m.vel_x))
    /\ m.x + Px(15) <= Px(q.x + q.width) + (Px(15) + Abs(m.vel_x))

\* C23: Rule B. A body with vy < 0 and |vx| > 4 after integration and a
\* platform it can grab ends the tick resting on that platform's top
\* (y = platform.y - 45, vy = 0, on_ground) with exactly one landing, for that
\* floor, made by Rule B alone; Rule B lands in no other case, so never with
\* vy >= 0 or |vx| <= 4.
C23_RuleB ==
    [][IsTick /\ ~game_over =>
        \E m \in {moved_body(keys')} :
            /\ \A i \in 1..Len(platforms) :
                  m.vel_y < 0 /\ Abs(m.vel_x) > Px(4) /\ grabbable(m, platforms[i]) =>
                      /\ player'.y = Px(platforms[i].y - 45)
                      /\ player'.vel_y = 0 /\ player'.on_ground
                      /\ ev'.rule = "B" /\ ev'.landings = 1
                      /\ ev'.floor = platforms[i].floor
                      /\ player'.last_floor = platforms[i].floor
            /\ ev'.rule = "B" =>
                  /\ m.vel_y < 0 /\ Abs(m.vel_x) > Px(4)
                  /\ \E i \in 1..Len(platforms) : grabbable(m, platforms[i])]_vars

\* a grab: the body rests on a platform it reached from below in a stunt jump
C23_Witness ==
    /\ ev.rule = "B" /\ ev.landings = 1 /\ ev.floor >= 1
    /\ player.on_ground /\ player.vel_y = 0 /\ Abs(player.vel_x) > Px(4)
    /\ player.y = Px(platforms[ev.floor + 1].y - 45)

\* Rule C takes the hit of body m on platform q from below as a true bump: the
\* from-below classification with at least 30% of the width under the
\* platform, and not the landing of a close, half-supported body
true_bump(m, q) ==
    /\ bottom_class(m, q)
    /\ 10 * support_width(m, q) >= 3 * Px(Player_width)
    /\ \/ 2 * Abs(m.y - Px(q.y)) >= landing_threshold2(m)
       \/ 2 * support_width(m, q) < Px(Player_width)

\* C24: a true bottom bump puts the body's top on the platform's bottom edge
\* with vy = 0 and ends the scan: on_ground stays false, x and vx are as
\* integration left them, the floors, the score and the combo are as before
\* the tick (but for the tick's own combo timer step), and nothing landed.
\* When Rules A and B found nothing and the one colliding platform is hit as
\* a true bump, the tick is a bump.
C24_Bump ==
    [][IsTick /\ ~game_over =>
        \E m \in {moved_body(keys')} :
            /\ ev'.rule = "bump" =>
                  /\ \E i \in 1..Len(platforms) :
                        /\ true_bump(m, platforms[i])
                        /\ player'.y = Px(platforms[i].y + platforms[i].height)
                  /\ player' = combo_timer_step([m EXCEPT !.y = player'.y, !.vel_y = 0])
                  /\ ~player'.on_ground
                  /\ player'.x = m.x /\ player'.vel_x = m.vel_x /\ player'.vel_y = 0
                  /\ player'.last_floor = player.last_floor
                  /\ player'.highest_floor = player.highest_floor
                  /\ ev'.landings = 0
                  /\ ev'.score = player.score
                  /\ ev'.combo_active = player.combo_active
                  /\ ev'.combo_timer = player.combo_timer
                  /\ ev'.total_combo_floors = player.total_combo_floors
            /\ ( /\ ev'.rule \notin {"A", "B"}
                 /\ Len(colliding_platforms(m, platforms)) = 1
                 /\ true_bump(m, colliding_platforms(m, platforms)[1]) )
               => ev'.rule = "bump"]_vars

\* a bump: the body hangs under a platform's bottom edge, stopped, with a combo
\* running on
C24_Witness ==
    /\ ev.rule = "bump" /\ ev.landings = 0 /\ ~player.on_ground /\ player.vel_y = 0
    /\ ev.before.combo_active /\ ev.combo_active
    /\ \E i \in 1..Len(platforms) :
          player.y = Px(platforms[i].y + platforms[i].height)

\* C25: no tick raises target_camera_y; a tick changes it exactly when the
\* player, after its update, stands above 40% of the window (player.y -
\* camera_y < 240 with the camera as the tick found it) and player.y - 240 is
\* below the target, and then the target is player.y - 240.
C25_Target ==
    [][IsTick =>
        /\ target_camera_y' <= target_camera_y
        /\ game_over => target_camera_y' = target_camera_y
        /\ ~game_over =>
              IF /\ player'.y - camera_y < Px(240)
                 /\ player'.y - Px(240) < target_camera_y
              THEN target_camera_y' = player'.y - Px(240)
              ELSE target_camera_y' = target_camera_y]_vars

\* the target has followed a climbing player
C25_Witness ==
    /\ target_camera_y < 0 /\ target_camera_y = player.y - Px(240)
    /\ ev.rule # "restart" /\ ~game_over

\* C26: the camera is never above its target (camera_y >= target_camera_y),
\* and the easing step of a tick, which runs when the tick's target is below
\* the camera, leaves the camera strictly nearer to the target and still not
\* above it; without it the camera only takes the forced scroll. The eased
\* position is camera_y' less the forced scroll of the tick.
C26_NoOvershoot ==
    /\ [](camera_y >= target_camera_y)
    /\ [][IsTick /\ ~game_over =>
            IF target_camera_y' < camera_y
            THEN /\ camera_y' - scroll_speed > target_camera_y'
                 /\ camera_y' - scroll_speed < camera_y
            ELSE camera_y' - scroll_speed = camera_y]_vars

\* the camera eased after a target far above it and is still below the target
C26_Witness ==
    /\ target_camera_y < -Px(50)
    /\ camera_y > target_camera_y /\ camera_y < 0
    /\ ~game_over

\* C27: a body at rest stays at rest. A tick with no key held that finds the
\* body grounded ends with the body grounded at the same height, processes no
\* landing, and ends no combo whose timer has not run out.
C27_RestStays ==
    [][IsTick /\ ~game_over /\ player.on_ground /\ keys' = NoKeys =>
        /\ player'.on_ground
        /\ player'.y = player.y
        /\ ev'.landings = 0
        /\ player.combo_active /\ player.combo_timer > 1 => player'.combo_active]_vars

\* C28: a tick of the running game that ends with on_ground true processed a
\* landing and ends with vy = 0 and the body's bottom on the top of the
\* platform of floor last_floor; a tick that processed no landing ends with
\* on_ground false.
C28_Grounded ==
    [][IsTick /\ ~game_over =>
        /\ player'.on_ground =>
              /\ ev'.landings >= 1
              /\ player'.vel_y = 0
              /\ \E i \in 1..Len(platforms) : platforms[i].floor = player'.last_floor
              /\ \A i \in 1..Len(platforms) :
                    platforms[i].floor = player'.last_floor =>
                        player'.y + Px(45) = Px(platforms[i].y)
        /\ ev'.landings = 0 => ~player'.on_ground]_vars

\* a tick ended grounded on a platform above the ground
C28_Witness ==
    /\ player.on_ground /\ ev.landings = 1 /\ player.vel_y = 0
    /\ player.last_floor >= 1
    /\ player.y + Px(45) = Px(platforms[player.last_floor + 1].y)

\* C29: 0 <= last_floor <= highest_floor <= 199 in every state; both are 0
\* when a run starts (at construction and after restart_game); a tick with a
\* landing leaves last_floor at the floor landed on and highest_floor at the
\* larger of its old value and that floor, and a tick without a landing
\* leaves both alone: last_floor is the floor of the run's last landing and
\* highest_floor the largest floor of all its landings.
C29_Floors ==
    /\ player.last_floor = 0 /\ player.highest_floor = 0
    /\ [](/\ 0 <= player.last_floor
          /\ player.last_floor <= player.highest_floor
          /\ player.highest_floor <= TOWER_FLOORS)
    /\ [][/\ IsTick /\ ev'.landings >= 1 =>
               /\ player'.last_floor = ev'.floor
               /\ player'.highest_floor = Max(player.highest_floor, ev'.floor)
          /\ IsTick /\ ev'.landings = 0 =>
               /\ player'.last_floor = player.last_floor
               /\ player'.highest_floor = player.highest_floor
          /\ ~IsTick =>
               player'.last_floor = 0 /\ player'.highest_floor = 0]_vars

\* the last landing was on a floor below the floor record
C29_Witness ==
    /\ ev.landings = 1 /\ player.last_floor = ev.floor
    /\ player.last_floor >= 1 /\ player.last_floor < player.highest_floor

\* Rule C's from-below classification of the hit of body m on platform q, with
\* at least 30% of the body's width under the platform
from_below(m, q) ==
    /\ colliderect(Rect(m.x, m.y, Player_width, Player_height), platform_rect(q))
    /\ bottom_class(m, q)
    /\ 10 * support_width(m, q) >= 3 * Px(Player_width)

\* C30: in the from-below classification the distance between the body's top
\* and the platform's top is below the landing threshold, which is at least
\* 35; so when Rules A and B found nothing and the one colliding platform is
\* hit from below with at least half the body's width supported, the body
\* lands on top of it, and a tick is a bump only with a platform under which
\* it has at least 30% and less than 50% of its width.
C30_FromBelow ==
    [][IsTick /\ ~game_over =>
        \E m \in {moved_body(keys')} :
            /\ \A i \in 1..Len(platforms) :
                  from_below(m, platforms[i]) =>
                      /\ landing_threshold2(m) >= 2 * Px(35)
                      /\ 2 * Abs(m.y - Px(platforms[i].y)) < landing_threshold2(m)
            /\ ( /\ ev'.rule \notin {"A", "B"}
                 /\ Len(colliding_platforms(m, platforms)) = 1
                 /\ from_below(m, colliding_platforms(m, platforms)[1])
                 /\ 2 * support_width(m, colliding_platforms(m, platforms)[1])
                        >= Px(Player_width) ) =>
                  /\ ev'.rule = "C_below" /\ ev'.landings = 1 /\ player'.on_ground
                  /\ player'.y = Px(colliding_platforms(m, platforms)[1].y - 45)
            /\ ev'.rule = "bump" =>
                  \E i \in 1..Len(platforms) :
                      /\ from_below(m, platforms[i])
                      /\ player'.y = Px(platforms[i].y + platforms[i].height)
                      /\ 2 * support_width(m, platforms[i]) < Px(Player_width)]_vars

\* a rising body landed on top of the platform it hit from below
C30_Witness ==
    /\ ev.rule = "C_below" /\ ev.landings = 1 /\ player.on_ground
    /\ ev.floor >= 1 /\ player.y = Px(platforms[ev.floor + 1].y - 45)

=============================================================================
